---------------------------- MODULE Spec2Model ----------------------------
(***************************************************************************)
(* A model of clipper-rs (src/src/*.rs): the geometric primitives and the  *)
(* OutRec flags of lib.rs, the slope tests and Edge::top_x of edge.rs,     *)
(* int128mul! of macros.rs, the PolyNode pool of node.rs and the           *)
(* ClipperBuilder and Clipper of clipper.rs.                               *)
(*                                                                         *)
(* The program has no global state machine of its own: each part is a set  *)
(* of functions over its own data.  Each part therefore has its own        *)
(* variables and its own specification (SpecContrib, SpecTree, ...); a     *)
(* specification leaves the variables of the other parts at rest.          *)
(***************************************************************************)
EXTENDS Integers, Sequences, FiniteSets

VARIABLES
    \* ---- the build ----
    overflow_checks,  \* TRUE when integer overflow panics (debug), FALSE when
                      \* it wraps (release)
    use_int32,        \* cfg(use_int32): CInt is i32 (point.rs:2), else i64
    use_int128,       \* cfg(use_int128)
    \* ---- Clipper::is_contributing (clipper.rs) ----
    subj_fill_type,   \* Clipper.subj_fill_type
    clip_fill_type,   \* Clipper.clip_fill_type
    clip_type,        \* Clipper.clip_type
    edge,             \* the Edge argument: poly_typ, wind_delta, wind_cnt, wind_cnt2
    contribPc,        \* "call" before is_contributing ran, "done" after
    contributing,     \* the set of values is_contributing can return
    \* ---- PolyTree / PolyNode (lib.rs, node.rs) ----
    all_nodes,        \* PolyTree.all_nodes, the pool of nodes
    panicked,         \* TRUE once a call has panicked
    lastCall,         \* the last PolyNode call: its arguments and its result
    \* ---- Path and the point-in-polygon tests (lib.rs) ----
    path,             \* Path.poly: a sequence of points; also the points of
                      \* the OutPt ring, in next-order
    pt,               \* the point argument
    geomCall,         \* the function called last: "none" before any call
    geomRet,          \* <<v>> when the call returned v, <<>> when it did not return
    \* ---- ClipperBuilder and Clipper::execute_* (clipper.rs) ----
    init_options,     \* ClipperBuilder.options: the ClipperInitOptions
    options,          \* Clipper.options, the byte build() computes
    subject,          \* the caller's subject paths
    clip,             \* the caller's clip paths
    solution,         \* the solution the caller hands to execute_*: its paths
    execPc,           \* "builder", then "built", then "executed"
    execCall,         \* the execute_* call made: function and arguments
    execRet,          \* <<v>> when the call returned v, <<>> when it yields no value
    \* ---- the slope tests (edge.rs) ----
    pts,              \* four points: the ends of two edges, or the point arguments
    slopeCall,        \* the function called last: "none" before any call
    slopeRet,         \* <<v>> when the call returned v, <<>> when it panicked
    \* ---- Edge::set_dx and Edge::top_x (edge.rs) ----
    scan_edge,        \* the Edge: bot, top and dx
    dx_set,           \* TRUE once set_dx ran on the edge
    topxCall,         \* <<y>> once top_x(y) was called, <<>> before
    topxRet,          \* <<v>> when top_x returned v, <<>> when it panicked
    \* ---- OutRec (lib.rs) ----
    is_hole_open,     \* OutRec.is_hole_open, a u8
    outRecCall,       \* the accessor called last: "none" before any call
    outRecRet,        \* <<v>> when the accessor returned v
    \* ---- PolyNode::get_next_sibling_up (node.rs) ----
    sibCall,          \* <<n>> once all_nodes[n].get_next_sibling_up() was called
    sibRet,           \* <<outcome>> of that call
    \* ---- int128mul! (macros.rs) ----
    mul_lhs,          \* the i64 variable given as $lhs
    mul_rhs,          \* the i64 variable given as $rhs
    mulCall,          \* <<[lhs, rhs]>>, the operands' values at the call; <<>> before
    mulRet            \* <<[hi, lo]>> when the macro yielded (hi, lo), <<>> when it panicked

buildVars == <<overflow_checks, use_int32, use_int128>>

contribVars == <<subj_fill_type, clip_fill_type, clip_type, edge, contribPc, contributing>>

treeVars == <<all_nodes, panicked, lastCall>>

geomVars == <<path, pt, geomCall, geomRet>>

execVars == <<init_options, options, subject, clip, solution, execPc, execCall, execRet>>

slopeVars == <<pts, slopeCall, slopeRet>>

edgeVars == <<scan_edge, dx_set, topxCall, topxRet>>

outRecVars == <<is_hole_open, outRecCall, outRecRet>>

siblingVars == <<sibCall, sibRet>>

mulVars == <<mul_lhs, mul_rhs, mulCall, mulRet>>

vars == <<buildVars, contribVars, treeVars, geomVars, execVars, slopeVars, edgeVars, outRecVars, siblingVars, mulVars>>

-----------------------------------------------------------------------------
(* Bounds of the model *)

\* winding counts are drawn from -MaxWind..MaxWind
MaxWind == 2
\* the pool holds at most MaxNodes nodes, the root included
MaxNodes == 4
\* coordinates are drawn from 0..MaxCoord
MaxCoord == 2
\* paths and rings hold at most MaxLen points
MaxLen == 3
\* the ends of an Edge and the scanline y are drawn from 0..MaxEdgeCoord
MaxEdgeCoord == 3

-----------------------------------------------------------------------------
(* lib.rs: the enums *)

PolyFillType == {"EvenOdd", "NonZero", "Positive", "Negative"}
ClipType == {"Intersection", "Union", "Difference", "Xor"}
PolyType == {"Subject", "Clip"}

Abs(n) == IF n < 0 THEN -n ELSE n

-----------------------------------------------------------------------------
(* clipper.rs: Clipper::is_contributing *)

\* Edge.winding_delta is a u8 ("1 or -1 depending on winding direction"):
\* 0, 1 and the u8 that -1 wraps to.
WindDeltas == {0, 1, 255}
WindCounts == (-MaxWind)..MaxWind

Edges == [poly_typ : PolyType, wind_delta : WindDeltas,
          wind_cnt : WindCounts, wind_cnt2 : WindCounts]

\* lines 96-97: (pft, pft2) = (subj_fill_type, clip_fill_type), swapped when
\* the edge is not a subject edge; pft is the fill rule the match reads.
OwnFillType(e, sft, cft) == IF e.poly_typ # "Subject" THEN cft ELSE sft

\* a slip in the NonZero arm: wind_cnt != 0 instead of wind_cnt.abs() != 1
PassesFillRule_NonZeroAny(e, pft) ==
    CASE pft = "EvenOdd"  -> ~(e.wind_delta = 0 /\ e.wind_cnt # 1)
      [] pft = "NonZero"  -> ~(e.wind_cnt = 0)
      [] pft = "Positive" -> ~(e.wind_cnt # 1)
      [] pft = "Negative" -> ~(e.wind_cnt # -1)

\* a slip in the Negative arm: wind_cnt >= 0 instead of wind_cnt != -1
PassesFillRule_NegativeAny(e, pft) ==
    CASE pft = "EvenOdd"  -> ~(e.wind_delta = 0 /\ e.wind_cnt # 1)
      [] pft = "NonZero"  -> ~(Abs(e.wind_cnt) # 1)
      [] pft = "Positive" -> ~(e.wind_cnt # 1)
      [] pft = "Negative" -> ~(e.wind_cnt >= 0)

\* lines 99-104: the match on pft; FALSE where an arm returns false
PassesFillRule(e, pft) ==
    CASE pft = "EvenOdd"  -> ~(e.wind_delta = 0 /\ e.wind_cnt # 1)
      [] pft = "NonZero"  -> ~(Abs(e.wind_cnt) # 1)
      [] pft = "Positive" -> ~(e.wind_cnt # 1)
      [] pft = "Negative" -> ~(e.wind_cnt # -1)

\* lines 106-108: match self.clip_type { } has no arm: no clip type yields a
\* value, so the set of values it can evaluate to is empty.
ClipTypeMatch(ct, e) == {}

\* lines 95-109: the values is_contributing can return
is_contributing(e, sft, cft, ct) ==
    IF ~PassesFillRule(e, OwnFillType(e, sft, cft))
    THEN {FALSE}
    ELSE ClipTypeMatch(ct, e)

ContribInit ==
    /\ subj_fill_type \in PolyFillType
    /\ clip_fill_type \in PolyFillType
    /\ clip_type \in ClipType
    /\ edge \in Edges
    /\ contribPc = "call"
    /\ contributing = {}

ContribIdle ==
    /\ subj_fill_type = "EvenOdd"
    /\ clip_fill_type = "EvenOdd"
    /\ clip_type = "Intersection"
    /\ edge = [poly_typ |-> "Subject", wind_delta |-> 0, wind_cnt |-> 0, wind_cnt2 |-> 0]
    /\ contribPc = "call"
    /\ contributing = {}

CallIsContributing ==
    /\ contribPc = "call"
    /\ contributing' = is_contributing(edge, subj_fill_type, clip_fill_type, clip_type)
    /\ contribPc' = "done"
    /\ UNCHANGED <<subj_fill_type, clip_fill_type, clip_type, edge>>

-----------------------------------------------------------------------------
(* Fixed-width integers.  An i32, i64 or u64 of the program is kept as its *)
(* bytes, least significant first (4 bytes for 32 bits, 8 for 64), signed  *)
(* values in two's complement, so that wrapping and overflow are those of  *)
(* the program.  An operation yields [v |-> the wrapped result, o |-> TRUE *)
(* when the exact result does not fit], as Rust's overflowing_* do.        *)

\* the k low bytes of the natural number n
RECURSIVE BytesOf(_, _)
BytesOf(n, k) == IF k = 0 THEN <<>> ELSE <<n % 256>> \o BytesOf(n \div 256, k - 1)

ZeroBytes(k) == [i \in 1..k |-> 0]

IsZero(a) == \A i \in 1..Len(a) : a[i] = 0

\* the sign bit of a two's-complement value
IsNeg(a) == a[Len(a)] >= 128

\* !a
NotBytes(a) == [i \in 1..Len(a) |-> 255 - a[i]]

\* a signed value widened to k bytes
SignExtend(a, k) == a \o [i \in 1..(k - Len(a)) |-> IF IsNeg(a) THEN 255 ELSE 0]

\* In the operators below an operand that is read byte by byte is first
\* bound to a name (x \in {a}), so that it is worked out once.

\* the carry (0 or 1) into byte k of a + b + c, c being the carry into byte
\* 1: the nearest byte below k whose sum is not 255 makes it or stops it
CarryInto(a, b, c, k) ==
    IF \A j \in 1..(k - 1) : a[j] + b[j] = 255
    THEN c
    ELSE LET m == CHOOSE j \in 1..(k - 1) :
                      /\ a[j] + b[j] # 255
                      /\ \A i \in (j + 1)..(k - 1) : a[i] + b[i] = 255
         IN  IF a[m] + b[m] > 255 THEN 1 ELSE 0

\* a + b + c for a, b of one length and a carry c (0 or 1): one byte longer
AddBytes(a, b, c) ==
    CHOOSE sum \in {[k \in 1..(Len(x) + 1) |->
                        IF k <= Len(x) THEN (x[k] + y[k] + CarryInto(x, y, z, k)) % 256
                        ELSE CarryInto(x, y, z, k)] : x \in {a}, y \in {b}, z \in {c}} : TRUE

\* f[lo] + ... + f[hi]
RECURSIVE SumOver(_, _, _)
SumOver(f, lo, hi) ==
    IF lo > hi THEN 0
    ELSE IF lo = hi THEN f[lo]
    ELSE SumOver(f, lo, (lo + hi) \div 2) + SumOver(f, (lo + hi) \div 2 + 1, hi)

\* the columns of the long multiplication of a by b: column k holds the sum
\* of the products a[i] * b[j] of weight 256^(k - 1), not yet carried
Columns(a, b) ==
    CHOOSE cols \in {[k \in 1..(Len(x) + Len(y)) |->
                        SumOver([i \in 1..Len(x) |->
                                    IF k + 1 - i \in 1..Len(y) THEN x[i] * y[k + 1 - i]
                                    ELSE 0],
                                1, Len(x))] : x \in {a}, y \in {b}} : TRUE

\* each column cut to a byte, and what each column carries to the next
ColumnBytes(v) == [k \in 1..Len(v) |-> v[k] % 256]
ColumnCarries(v) == [k \in 1..Len(v) |-> IF k = 1 THEN 0 ELSE v[k - 1] \div 256]

\* one round of carrying: the same number with smaller columns
CarryRound(v) ==
    CHOOSE cols \in {[k \in 1..Len(x) |-> ColumnBytes(x)[k] + ColumnCarries(x)[k]] :
                        x \in {v}} : TRUE

\* the number held by columns of at most 256 each, in bytes
CarriedOut(v) ==
    CHOOSE bytes \in {SubSeq(AddBytes(ColumnBytes(x), ColumnCarries(x), 0), 1, Len(x)) :
                         x \in {v}} : TRUE

\* the unsigned product a * b, exact, in Len(a) + Len(b) bytes; for a, b
\* of at most 256 bytes three rounds bring every column to at most 256
MulBytes(a, b) == CarriedOut(CarryRound(CarryRound(CarryRound(Columns(a, b)))))

\* a < b, unsigned, for a, b of one length
LessBytes(a, b) ==
    \E x \in {a}, y \in {b} :
        \E k \in 1..Len(x) :
            /\ x[k] < y[k]
            /\ \A j \in (k + 1)..Len(x) : x[j] = y[j]

\* a < b, signed
LessSigned(a, b) ==
    IF IsNeg(a) # IsNeg(b) THEN IsNeg(a) ELSE LessBytes(a, b)

\* unsigned a + b
UAdd(a, b) ==
    LET t == AddBytes(a, b, 0)
    IN  [v |-> SubSeq(t, 1, Len(a)), o |-> t[Len(a) + 1] # 0]

\* unsigned a - b
USub(a, b) ==
    [v |-> SubSeq(AddBytes(a, NotBytes(b), 1), 1, Len(a)), o |-> LessBytes(a, b)]

\* unsigned a * b
UMul(a, b) ==
    LET t == MulBytes(a, b)
    IN  [v |-> SubSeq(t, 1, Len(a)), o |-> ~IsZero(SubSeq(t, Len(a) + 1, Len(t)))]

\* the exact signed a + b, one byte longer than a
ExactSum(a, b) ==
    LET n == Len(a) + 1
    IN  SubSeq(AddBytes(SignExtend(a, n), SignExtend(b, n), 0), 1, n)

\* the exact signed a - b, one byte longer than a
ExactDiff(a, b) ==
    LET n == Len(a) + 1
    IN  SubSeq(AddBytes(SignExtend(a, n), NotBytes(SignExtend(b, n)), 1), 1, n)

\* the exact signed product a * b, twice as long as a
ExactProduct(a, b) ==
    LET n == 2 * Len(a)
    IN  SubSeq(MulBytes(SignExtend(a, n), SignExtend(b, n)), 1, n)

\* an exact signed result e cut to k bytes
Wrapped(e, k) ==
    LET w == SubSeq(e, 1, k)
    IN  [v |-> w, o |-> SignExtend(w, Len(e)) # e]

\* signed a + b, a - b, a * b, -a
IAdd(a, b) == Wrapped(ExactSum(a, b), Len(a))
ISub(a, b) == Wrapped(ExactDiff(a, b), Len(a))
IMul(a, b) == Wrapped(ExactProduct(a, b), Len(a))
INeg(a) == ISub(ZeroBytes(Len(a)), a)

\* a 64-bit value shifted: a >> 32 (logical), a << 32, and a & 0xFFFFFFFF
Shr32(a) == SubSeq(a, 5, 8) \o ZeroBytes(4)
Shl32(a) == ZeroBytes(4) \o SubSeq(a, 1, 4)
Low32(a) == SubSeq(a, 1, 4) \o ZeroBytes(4)

-----------------------------------------------------------------------------
(* The build *)

\* CInt (point.rs:1-4): the bytes of a coordinate
CIntBytes == IF use_int32 THEN 4 ELSE 8

\* what a computation yields when its operations overflowed (o) or not and
\* its wrapped result is v: a build with overflow checks panics on overflow
Returned(o, v) == IF o /\ overflow_checks THEN <<>> ELSE <<v>>

\* the default build in release mode
BuildIdle ==
    /\ overflow_checks = FALSE
    /\ use_int32 = FALSE
    /\ use_int128 = FALSE

\* the default build, debug or release
BuildChecks ==
    /\ overflow_checks \in BOOLEAN
    /\ use_int32 = FALSE
    /\ use_int128 = FALSE

\* any build
BuildAny ==
    /\ overflow_checks \in BOOLEAN
    /\ use_int32 \in BOOLEAN
    /\ use_int128 \in BOOLEAN

-----------------------------------------------------------------------------
(* macros.rs: int128mul! *)

\* the operand as u64 (lines 12, 16): an i32 operand is sign-extended
AsU64(x) == SignExtend(x, 8)

\* the operand & 0xFFFFFFFF as u64 (lines 13, 17): on an i32 operand the mask
\* is the i32 of all ones
MaskedAsU64(x) == IF Len(x) = 8 THEN Low32(x) ELSE SignExtend(x, 8)

\* Lines 8-38, for operands of type CInt: the pair (hi: i64, lo: u64) the
\* macro yields, and o, TRUE when one of its operations overflowed.  The
\* macro is a chain of let bindings; each step below takes the values bound
\* so far as its arguments (o: an operation overflowed so far).

\* an operand as it is with no overflow
Plain(x) == [v |-> x, o |-> FALSE]

\* lines 27-37: the carry into tmp.0 (carried) is made; the negation
Int128MulNegate(negate, o, carried, tmp_1) ==
    IF ~negate
    THEN [hi |-> carried.v, lo |-> tmp_1, o |-> o \/ carried.o]
    ELSE IF IsZero(tmp_1)
    THEN [hi |-> INeg(carried.v).v, lo |-> tmp_1,
          o |-> o \/ carried.o \/ INeg(carried.v).o]
    ELSE [hi |-> NotBytes(carried.v), lo |-> USub(NotBytes(tmp_1), BytesOf(1, 8)).v,
          o |-> o \/ carried.o \/ USub(NotBytes(tmp_1), BytesOf(1, 8)).o]

\* line 27: if tmp.1 < b { tmp.0 += 1 }
Int128MulCarry(negate, o, b, tmp_0, tmp_1) ==
    Int128MulNegate(negate, o \/ tmp_0.o \/ tmp_1.o,
                    IF LessBytes(tmp_1.v, b) THEN IAdd(tmp_0.v, BytesOf(1, 8))
                                             ELSE Plain(tmp_0.v),
                    tmp_1.v)

\* lines 24-26: c1 = c << 32; tmp = ((a + c1) as i64, b + c1)
Int128MulTmp(negate, o, a, b, c1) ==
    Int128MulCarry(negate, o, b, UAdd(a, c1), UAdd(b, c1))

\* line 22, the sum: c = int1_hi * int2_lo + int1_lo * int2_hi
Int128MulCross(negate, o, a, b, c) ==
    Int128MulTmp(negate, o \/ c.o, a, b, Shl32(c.v))

\* lines 20-22, the products
Int128MulProducts(negate, o, a, b, c_l, c_r) ==
    Int128MulCross(negate, o \/ a.o \/ b.o \/ c_l.o \/ c_r.o,
                   a.v, b.v, UAdd(c_l.v, c_r.v))

\* lines 12-13, 16-17: the halves of the operands; the four products are
\* bound once each
Int128MulHalves(negate, o, int1_hi, int1_lo, int2_hi, int2_lo) ==
    CHOOSE yielded \in {Int128MulProducts(negate, o, a, b, c_l, c_r) :
                            a \in {UMul(int1_hi, int2_hi)}, b \in {UMul(int1_lo, int2_lo)},
                            c_l \in {UMul(int1_hi, int2_lo)},
                            c_r \in {UMul(int1_lo, int2_hi)}} : TRUE

\* lines 11, 15 made: l and r are the operands after `if x < 0 { x = -x }`
Int128MulAbs(negate, l, r) ==
    Int128MulHalves(negate, l.o \/ r.o,
                    Shr32(AsU64(l.v)), MaskedAsU64(l.v),
                    Shr32(AsU64(r.v)), MaskedAsU64(r.v))

\* lines 11, 15: if x < 0 { x = -x }
NegateIfNegative(x) == IF IsNeg(x) THEN INeg(x) ELSE Plain(x)

Int128Mul(lhs, rhs) ==
    Int128MulAbs(IsNeg(lhs) # IsNeg(rhs), NegateIfNegative(lhs), NegateIfNegative(rhs))

-----------------------------------------------------------------------------
(* edge.rs: slopes_equal_edge2, slopes_equal_point3, slopes_equal_point4 *)

\* HI_RANGE (consts.rs:20, 25): 0x7FFF under use_int32, else 0x3FFFFFFFFFFFFFFF
HI_RANGE == IF use_int32 THEN <<255, 127, 0, 0>>
            ELSE <<255, 255, 255, 255, 255, 255, 255, 63>>

\* a coordinate far from the origin: 2^32, or 0x7FFF under use_int32
FarCoord == IF use_int32 THEN <<255, 127, 0, 0>> ELSE <<0, 0, 0, 0, 1, 0, 0, 0>>

\* the points the arguments are drawn from
SlopePoints ==
    LET zero == BytesOf(0, CIntBytes)
        one == BytesOf(1, CIntBytes)
    IN  { [x |-> zero, y |-> zero], [x |-> zero, y |-> FarCoord],
          [x |-> FarCoord, y |-> one], [x |-> one, y |-> one],
          [x |-> INeg(FarCoord).v, y |-> INeg(FarCoord).v] }

\* the body under cfg(all(use_int32, use_int128)), lines 177-180, 200-203,
\* 221-223: the differences y1, x1, y2, x2 are results of subtractions.
\* (The macro assigns to its operands, which these functions bind without
\* mut; the model takes the assignment as made.)
SlopesEqualInt128(y1, x1, y2, x2) ==
    LET a == Int128Mul(y1.v, x2.v)
        b == Int128Mul(x1.v, y2.v)
    IN  Returned(y1.o \/ x1.o \/ y2.o \/ x2.o \/ a.o \/ b.o,
                 a.hi = b.hi /\ a.lo = b.lo)

\* the body under cfg(not(all(use_int32, use_int128))), lines 190, 213, 235
SlopesEqualNative(y1, x1, y2, x2) ==
    LET a == IMul(y1.v, x2.v)
        b == IMul(x1.v, y2.v)
    IN  Returned(y1.o \/ x1.o \/ y2.o \/ x2.o \/ a.o \/ b.o, a.v = b.v)

SlopesEqual(y1, x1, y2, x2) ==
    IF use_int32 /\ use_int128 THEN SlopesEqualInt128(y1, x1, y2, x2)
    ELSE SlopesEqualNative(y1, x1, y2, x2)

\* lines 168-191
slopes_equal_edge2(e1, e2) ==
    LET sdy == ISub(e1.top.y, e1.bot.y)
        sdx == ISub(e1.top.x, e1.bot.x)
        edy == ISub(e2.top.y, e2.bot.y)
        edx == ISub(e2.top.x, e2.bot.x)
    IN  SlopesEqual(sdy, sdx, edy, edx)

\* lines 193-214
slopes_equal_point3(p1, p2, p3) ==
    LET p12y == ISub(p1.y, p2.y)
        p12x == ISub(p1.x, p2.x)
        p23y == ISub(p2.y, p3.y)
        p23x == ISub(p2.x, p3.x)
    IN  SlopesEqual(p12y, p12x, p23y, p23x)

\* lines 216-236
slopes_equal_point4(p1, p2, p3, p4) ==
    LET p12y == ISub(p1.y, p2.y)
        p12x == ISub(p1.x, p2.x)
        p34y == ISub(p3.y, p4.y)
        p34x == ISub(p3.x, p4.x)
    IN  SlopesEqual(p12y, p12x, p34y, p34x)

SlopesInit ==
    /\ pts \in [1..4 -> SlopePoints]
    /\ slopeCall = "none"
    /\ slopeRet = <<>>

SlopesIdle ==
    /\ pts = <<>>
    /\ slopeCall = "none"
    /\ slopeRet = <<>>

\* slopes_equal_edge2 on the edges pts[1] -> pts[2] and pts[3] -> pts[4]
CallSlopesEqualEdge2 ==
    /\ slopeCall = "none"
    /\ slopeCall' = "slopes_equal_edge2"
    /\ slopeRet' = slopes_equal_edge2([bot |-> pts[1], top |-> pts[2]],
                                      [bot |-> pts[3], top |-> pts[4]])
    /\ UNCHANGED pts

\* slopes_equal_point3 on pts[1], pts[2], pts[3]
CallSlopesEqualPoint3 ==
    /\ slopeCall = "none"
    /\ slopeCall' = "slopes_equal_point3"
    /\ slopeRet' = slopes_equal_point3(pts[1], pts[2], pts[3])
    /\ UNCHANGED pts

\* slopes_equal_point4 on pts[1], pts[2], pts[3], pts[4]
CallSlopesEqualPoint4 ==
    /\ slopeCall = "none"
    /\ slopeCall' = "slopes_equal_point4"
    /\ slopeRet' = slopes_equal_point4(pts[1], pts[2], pts[3], pts[4])
    /\ UNCHANGED pts

-----------------------------------------------------------------------------
(* node.rs: PolyNode, and the pool of lib.rs: PolyTree *)

\* Option<PolyNodeIndex>: None is <<>>, Some(i) is <<i>>.  A PolyNodeIndex is
\* the node's 0-based position in all_nodes; all_nodes[i] of the source is
\* all_nodes[i + 1] here.
None == <<>>
Some(i) == <<i>>

\* usize::MAX, which 0usize - 1 wraps to, in its two's-complement reading
USIZE_MAX == -1

\* a - 1 on usize where it cannot overflow-check: wrapping
WrappingSub1(a) == IF a >= 1 THEN a - 1 ELSE USIZE_MAX

\* The fields of PolyNode the modelled methods read or write.  contour,
\* join_type and end_type are carried along untouched by all of them.
NewNode(open) ==
    [glob_index |-> 0, index |-> 0, parent |-> None, childs |-> <<>>, is_open |-> open]

NodeAt(pool, idx) == pool[idx + 1]

\* node.rs:60-69: the loop of is_hole
RECURSIVE IsHoleLoop(_, _, _)
IsHoleLoop(pool, result, node_idx) ==
    IF node_idx = None
    THEN result
    ELSE IsHoleLoop(pool, ~result, NodeAt(pool, node_idx[1]).parent)

\* a slip: the walk starts at the node itself instead of at its parent
is_hole_from_self(pool, node) == IsHoleLoop(pool, TRUE, Some(node.glob_index))

\* node.rs:56-72
is_hole(pool, node) == IsHoleLoop(pool, TRUE, node.parent)

\* node.rs:33-38: add_child from the lock on, cnt being self.childs.len() - 1
AddChildLocked(pool, self, child, cnt) ==
    LET glob_cnt == Len(pool)
    IN  Append(pool, [child EXCEPT !.parent = Some(self.glob_index),
                                   !.index = cnt,
                                   !.glob_index = glob_cnt])

TreeInit ==
    /\ all_nodes = <<NewNode(FALSE)>>
    /\ panicked = FALSE
    /\ lastCall = [op |-> "none"]

TreeIdle ==
    /\ all_nodes = <<NewNode(FALSE)>>
    /\ panicked = FALSE
    /\ lastCall = [op |-> "none"]

\* node.rs:29-39: all_nodes[p].add_child(child)
AddChild(p, open) ==
    LET self == NodeAt(all_nodes, p)
        child == NewNode(open)
    IN  /\ ~panicked
        /\ Len(all_nodes) < MaxNodes
        /\ lastCall' = [op |-> "add_child", parent |-> p, before |-> all_nodes]
        /\ IF Len(self.childs) = 0 /\ overflow_checks
           THEN \* line 32: attempt to subtract with overflow
                /\ panicked' = TRUE
                /\ UNCHANGED all_nodes
           ELSE /\ all_nodes' = AddChildLocked(all_nodes, self, child,
                                               WrappingSub1(Len(self.childs)))
                /\ UNCHANGED panicked

\* node.rs:56-72: all_nodes[n].is_hole(), called by a caller that does not
\* hold the tree's mutex (is_hole takes it itself, once per parent link)
CallIsHole(n) ==
    /\ ~panicked
    /\ lastCall' = [op |-> "is_hole", node |-> n,
                    ret |-> is_hole(all_nodes, NodeAt(all_nodes, n))]
    /\ UNCHANGED <<all_nodes, panicked>>

-----------------------------------------------------------------------------
(* lib.rs: Path::area, Path::orientation *)

\* point.rs: an IntPoint, by get_x() and get_y()
Points == [x : 0..MaxCoord, y : 0..MaxCoord]

\* the paths of n points (a function on 1..n is a sequence)
PathsOfLen(n) == [1..n -> Points]

\* the loop of area without the j = i of line 183: j stays size - 1
RECURSIVE AreaLoop_StaleJ(_, _, _, _)
AreaLoop_StaleJ(poly, i, j, a) ==
    IF i >= Len(poly)
    THEN a
    ELSE AreaLoop_StaleJ(poly, i + 1, j,
                  a + (poly[j + 1].x + poly[i + 1].x) * (poly[j + 1].y - poly[i + 1].y))

\* lines 180-184: for i in 0..size { a += (x[j] + x[i]) * (y[j] - y[i]); j = i }
\* (poly[i] of the source is poly[i + 1] here)
RECURSIVE AreaLoop(_, _, _, _)
AreaLoop(poly, i, j, a) ==
    IF i >= Len(poly)
    THEN a
    ELSE AreaLoop(poly, i + 1, i,
                  a + (poly[j + 1].x + poly[i + 1].x) * (poly[j + 1].y - poly[i + 1].y))

\* lines 172-187: area(), in units of 0.5: the f64 returned is
\* area_halves * 0.5 (line 186, `-a as f64 * 0.5`, is (-a) as f64 * 0.5,
\* exact while |a| < 2^53; line 175 returns 0.0)
area_halves(poly) ==
    LET size == Len(poly)
    IN  IF size < 3 THEN 0 ELSE -AreaLoop(poly, 0, size - 1, 0)

\* lines 168-170
orientation(poly) == area_halves(poly) >= 0

-----------------------------------------------------------------------------
(* lib.rs: is_point_in_path *)

\* line 357: (v >> 31) > 0 on an i64, that is v >= 2^31
ShiftedRight31Positive(v) == v > 2147483647

\* an integer of the model as an i64
I64(v) == IF v < 0 THEN INeg(BytesOf(-v, 8)).v ELSE BytesOf(v, 8)

\* Lines 359-369: the branch taken when a difference is 2^31 or more, as a
\* chain of steps like Int128Mul; panic: an operation overflowed in a build
\* with overflow checks.  (The coordinates of this model are small: their
\* differences stay below 2^31.)

\* lines 365-369: the tests on a
PipOverflowTest(o, a_0, a_1, result) ==
    IF (o \/ a_0.o) /\ overflow_checks
    THEN [ret |-> TRUE, result |-> result, panic |-> TRUE]
    ELSE IF IsZero(a_0.v) /\ IsZero(a_1)
    THEN [ret |-> TRUE, result |-> -1, panic |-> FALSE]
    ELSE IF ~IsNeg(a_0.v)
    THEN [ret |-> FALSE, result |-> 1 - result, panic |-> FALSE]
    ELSE [ret |-> FALSE, result |-> result, panic |-> FALSE]

\* line 364: if a.1 < b.1 { a.0 += 1 }
PipOverflowCarry(o, a_0, a_1, b_1, result) ==
    PipOverflowTest(o \/ a_0.o \/ a_1.o,
                    IF LessBytes(a_1.v, b_1) THEN IAdd(a_0.v, BytesOf(1, 8))
                                             ELSE Plain(a_0.v),
                    a_1.v, result)

\* lines 362-363: a.0 -= b.0; a.1 -= b.1
PipOverflowSub(a, b, result) ==
    PipOverflowCarry(a.o \/ b.o, ISub(a.hi, b.hi), USub(a.lo, b.lo), b.lo, result)

\* lines 359-360: a = int128mul!(vec_a, vec_b); b = int128mul!(vec_c, vec_d)
PipOverflowBranch(vec_a, vec_b, vec_c, vec_d, result) ==
    PipOverflowSub(Int128Mul(I64(vec_a), I64(vec_b)),
                   Int128Mul(I64(vec_c), I64(vec_d)), result)

\* lines 372-377: d = vec_a * vec_b - vec_c * vec_d
PipNoOverflowBranch(vec_a, vec_b, vec_c, vec_d, cond2, result) ==
    LET d == vec_a * vec_b - vec_c * vec_d
    IN  IF d = 0 THEN [ret |-> TRUE, result |-> -1, panic |-> FALSE]
        ELSE IF (d > 0) = cond2 THEN [ret |-> FALSE, result |-> 1 - result, panic |-> FALSE]
        ELSE [ret |-> FALSE, result |-> result, panic |-> FALSE]

\* lines 328-379: one turn of the loop for the pair (ip, np);
\* ret: the function returns result now; panic: it panics
PipStep(p, ip, np, result) ==
    IF np.y = p.y /\ (np.x = p.x \/ (ip.y = np.y /\ ((np.x > p.x) = (ip.x < p.x))))
    THEN [ret |-> TRUE, result |-> -1, panic |-> FALSE]
    ELSE IF (ip.y < p.y) = (np.y < p.y)
    THEN [ret |-> FALSE, result |-> result, panic |-> FALSE]
    ELSE LET cond1 == ip.x >= p.x
         IN  IF cond1 /\ np.x > p.x
             THEN [ret |-> FALSE, result |-> 1 - result, panic |-> FALSE]
             ELSE IF cond1 \/ np.x > p.x
             THEN LET vec_a == ip.x - p.x
                      vec_b == np.y - p.y
                      vec_c == np.x - p.x
                      vec_d == ip.y - p.y
                      cond2 == np.y > ip.y
                  IN  IF \/ ShiftedRight31Positive(vec_a) \/ ShiftedRight31Positive(vec_b)
                         \/ ShiftedRight31Positive(vec_c) \/ ShiftedRight31Positive(vec_d)
                      THEN PipOverflowBranch(vec_a, vec_b, vec_c, vec_d, result)
                      ELSE PipNoOverflowBranch(vec_a, vec_b, vec_c, vec_d, cond2, result)
             ELSE [ret |-> FALSE, result |-> result, panic |-> FALSE]

\* the pairing of a slip: np taken from the same position as ip, the
\* np_iter.next() of line 321 forgotten
RECURSIVE PipLoop_NoSkip(_, _, _, _)
PipLoop_NoSkip(p, poly, i, result) ==
    IF i > Len(poly)
    THEN <<result>>
    ELSE LET s == PipStep(p, poly[i], poly[i], result)
         IN  IF s.panic THEN <<>>
             ELSE IF s.ret THEN <<s.result>>
             ELSE PipLoop_NoSkip(p, poly, i + 1, s.result)

\* lines 319-326 and 380-382: ip runs over the path, np over the path cycled
\* and advanced by one
RECURSIVE PipLoop(_, _, _, _)
PipLoop(p, poly, i, result) ==
    IF i > Len(poly)
    THEN <<result>>
    ELSE LET s == PipStep(p, poly[i], poly[(i % Len(poly)) + 1], result)
         IN  IF s.panic THEN <<>>
             ELSE IF s.ret THEN <<s.result>>
             ELSE PipLoop(p, poly, i + 1, s.result)

\* lines 314-383: <<v>> when it returns v, <<>> when it panics
is_point_in_path(p, poly) ==
    IF Len(poly) < 3 THEN <<0>> ELSE PipLoop(p, poly, 1, 0)

GeomIdle ==
    /\ path = <<>>
    /\ pt = [x |-> 0, y |-> 0]
    /\ geomCall = "none"
    /\ geomRet = <<>>

AreaInit ==
    /\ \E n \in 0..MaxLen : path \in PathsOfLen(n)
    /\ pt = [x |-> 0, y |-> 0]
    /\ geomCall = "none"
    /\ geomRet = <<>>

PipInit ==
    /\ \E n \in 0..MaxLen : path \in PathsOfLen(n)
    /\ pt \in Points
    /\ geomCall = "none"
    /\ geomRet = <<>>

CallArea ==
    /\ geomCall = "none"
    /\ geomCall' = "area"
    /\ geomRet' = <<area_halves(path)>>
    /\ UNCHANGED <<path, pt>>

CallIsPointInPath ==
    /\ geomCall = "none"
    /\ geomCall' = "is_point_in_path"
    /\ geomRet' = is_point_in_path(pt, path)
    /\ UNCHANGED <<path, pt>>

-----------------------------------------------------------------------------
(* lib.rs: OutPt and is_point_in_out_pt *)

\* lines 217-223: the OutPt of a circular ring over the points of poly, in
\* next-order.  An Arc<OutPt> is the position of the OutPt in the ring; idx
\* (the contour the points belong to) is the same all around the ring.
Ring(poly) ==
    LET n == Len(poly)
    IN  [i \in 1..n |-> [idx |-> 0,
                         pt |-> poly[i],
                         next |-> (i % n) + 1,
                         prev |-> ((i + n - 2) % n) + 1]]

\* line 217, #[derive(PartialEq)], through Arc's PartialEq (which compares the
\* values pointed to): a != b is
\*   a.idx != b.idx || a.pt != b.pt || a.next != b.next || a.prev != b.prev.
\* "true" when a field differs; "overflow" when the comparison comes back to
\* a pair it is already comparing, where the recursion of the program has no
\* end (the stack overflows); "false" is never met on a ring, which has no end.
RECURSIVE OutPtNe(_, _, _, _)
OutPtNe(ring, a, b, comparing) ==
    IF <<a, b>> \in comparing THEN "overflow"
    ELSE IF ring[a].idx # ring[b].idx THEN "true"
    ELSE IF ring[a].pt # ring[b].pt THEN "true"
    ELSE LET viaNext == OutPtNe(ring, ring[a].next, ring[b].next,
                                comparing \cup {<<a, b>>})
         IN  IF viaNext # "false" THEN viaNext
             ELSE OutPtNe(ring, ring[a].prev, ring[b].prev, comparing \cup {<<a, b>>})

\* lines 396-399: while cur_op != origin_op { out_path.push(cur_op.pt); cur_op = cur_op.next }
RECURSIVE MaterializeLoop(_, _, _, _)
MaterializeLoop(ring, origin_op, cur_op, out_path) ==
    LET ne == OutPtNe(ring, cur_op, origin_op, {})
    IN  IF ne = "overflow" THEN [overflow |-> TRUE, out_path |-> out_path]
        ELSE IF ne = "true"
        THEN MaterializeLoop(ring, origin_op, ring[cur_op].next,
                             Append(out_path, ring[cur_op].pt))
        ELSE [overflow |-> FALSE, out_path |-> out_path]

\* lines 387-402: <<v>> when the call returns v, <<>> when it does not return
is_point_in_out_pt(p, ring, op) ==
    LET m == MaterializeLoop(ring, op, op, <<>>)
    IN  IF m.overflow THEN <<>> ELSE is_point_in_path(p, m.out_path)

RingInit ==
    /\ \E n \in 1..MaxLen : path \in PathsOfLen(n)
    /\ pt \in Points
    /\ geomCall = "none"
    /\ geomRet = <<>>

\* is_point_in_out_pt(pt, op) with op the first OutPt of the ring over path
CallIsPointInOutPt ==
    /\ geomCall = "none"
    /\ geomCall' = "is_point_in_out_pt"
    /\ geomRet' = is_point_in_out_pt(pt, Ring(path), 1)
    /\ UNCHANGED <<path, pt>>

-----------------------------------------------------------------------------
(* clipper.rs: ClipperBuilder::build and Clipper::execute_* *)

\* lines 2, 6, 7: the bit of each init option in Clipper.options
EXECUTE_LOCKED == 0
STRICT_SIMPLE == 0
PRESERVE_COLINEAR == 0

\* a | b on u8
RECURSIVE BitOr(_, _)
BitOr(a, b) ==
    IF a = 0 THEN b
    ELSE IF b = 0 THEN a
    ELSE (IF a % 2 = 1 \/ b % 2 = 1 THEN 1 ELSE 0) + 2 * BitOr(a \div 2, b \div 2)

\* lines 26-30
ClipperInitOptions ==
    [execute_locked : BOOLEAN, strict_simple : BOOLEAN, preserve_colinear : BOOLEAN]

\* lines 50-53: the options byte of build()
BuildOptions(o) ==
    LET opts0 == 0
        opts1 == IF o.execute_locked THEN BitOr(opts0, EXECUTE_LOCKED) ELSE opts0
        opts2 == IF o.strict_simple THEN BitOr(opts1, STRICT_SIMPLE) ELSE opts1
        opts3 == IF o.preserve_colinear THEN BitOr(opts2, PRESERVE_COLINEAR) ELSE opts2
    IN  opts3

\* spec 8, the concrete scenario: the two squares of the caller
SubjectSquare ==
    << [x |-> 0, y |-> 0], [x |-> 10, y |-> 0], [x |-> 10, y |-> 10], [x |-> 0, y |-> 10] >>
ClipSquare ==
    << [x |-> 5, y |-> 5], [x |-> 15, y |-> 5], [x |-> 15, y |-> 15], [x |-> 5, y |-> 15] >>

\* lines 70-74 and 76-80: the body of either execute_polytree is a comment;
\* line 91-93: so is that of execute_internal.  The solution is left as it
\* was handed in, and the body yields no Result.
ExecuteBody(sol) == [solution |-> sol, ret |-> <<>>]

ExecInit ==
    /\ init_options \in ClipperInitOptions
    /\ options = 0
    /\ subject = <<SubjectSquare>>
    /\ clip = <<ClipSquare>>
    /\ solution = <<>>
    /\ execPc = "builder"
    /\ execCall = [fn |-> "none"]
    /\ execRet = <<>>

ExecIdle ==
    /\ init_options = [execute_locked |-> FALSE, strict_simple |-> FALSE,
                       preserve_colinear |-> FALSE]
    /\ options = 0
    /\ subject = <<>>
    /\ clip = <<>>
    /\ solution = <<>>
    /\ execPc = "builder"
    /\ execCall = [fn |-> "none"]
    /\ execRet = <<>>

\* lines 47-62: ClipperBuilder::build (both fill types start as EvenOdd)
Build ==
    /\ execPc = "builder"
    /\ options' = BuildOptions(init_options)
    /\ execPc' = "built"
    /\ UNCHANGED <<init_options, subject, clip, solution, execCall, execRet>>

\* lines 70-74: execute_polytree(clip_type, solution: &mut Paths, fill_type)
ExecutePaths(ct, ft) ==
    /\ execPc = "built"
    /\ execCall' = [fn |-> "execute_polytree(Paths)", clip_type |-> ct, fill_type |-> ft]
    /\ solution' = ExecuteBody(solution).solution
    /\ execRet' = ExecuteBody(solution).ret
    /\ execPc' = "executed"
    /\ UNCHANGED <<init_options, options, subject, clip>>

\* lines 76-80: execute_polytree(clip_type, solution: &mut PolyTree, fill_type)
ExecutePolyTree(ct, ft) ==
    /\ execPc = "built"
    /\ execCall' = [fn |-> "execute_polytree(PolyTree)", clip_type |-> ct, fill_type |-> ft]
    /\ solution' = ExecuteBody(solution).solution
    /\ execRet' = ExecuteBody(solution).ret
    /\ execPc' = "executed"
    /\ UNCHANGED <<init_options, options, subject, clip>>

-----------------------------------------------------------------------------
(* edge.rs: Edge::set_dx, Edge::top_x *)

(* An f64 is kept as the fraction num / den it stands for, exact for the   *)
(* quotients of two small integers as far as rounding to an integer goes;  *)
(* a value beyond the range of i64 is kept as [huge |-> TRUE].             *)

\* consts.rs:8: HORIZONTAL = -1.0E+40
HORIZONTAL == [huge |-> TRUE]

\* n as f64 / d as f64
Quotient(n, d) == [huge |-> FALSE, num |-> n, den |-> d]

\* f64::round of n / d: to the nearest integer, halves away from zero
RoundHalfAway(n, d) ==
    LET q == (2 * Abs(n) + Abs(d)) \div (2 * Abs(d))
    IN  IF (n < 0) # (d < 0) THEN -q ELSE q

\* line 59: self.dx.round() as CInt; the cast of -1.0E+40 yields i64::MIN
RoundAsCInt(dx) ==
    IF dx.huge THEN <<0, 0, 0, 0, 0, 0, 0, 128>>
    ELSE I64(RoundHalfAway(dx.num, dx.den))

\* the ends of the edges of the model
EdgePoints == [x : 0..MaxEdgeCoord, y : 0..MaxEdgeCoord]

\* lines 35-42
set_dx(e) ==
    LET dy == e.top.y - e.bot.y
    IN  [e EXCEPT !.dx = IF dy = 0 THEN HORIZONTAL
                         ELSE Quotient(e.top.x - e.bot.x, dy)]

\* line 59, the sum: self.bot.get_x() + ...
TopXSum(bot_x, o, product) ==
    Returned(o \/ product.o \/ IAdd(bot_x, product.v).o, IAdd(bot_x, product.v).v)

\* line 59, the product: ... * (current_y - self.bot.get_y())
TopXProduct(bot_x, rounded, dy) ==
    TopXSum(bot_x, dy.o, IMul(rounded, dy.v))

\* lines 55-61: <<v>> when it returns v, an i64; <<>> when it panics
top_x(e, current_y) ==
    IF current_y = e.top.y
    THEN <<I64(e.top.x)>>
    ELSE TopXProduct(I64(e.bot.x), RoundAsCInt(e.dx),
                     ISub(I64(current_y), I64(e.bot.y)))

\* an Edge with its ends given and dx: 0.0
EdgeInit ==
    /\ scan_edge \in [bot : EdgePoints, top : EdgePoints, dx : {Quotient(0, 1)}]
    /\ dx_set = FALSE
    /\ topxCall = <<>>
    /\ topxRet = <<>>

EdgeIdle ==
    /\ scan_edge = <<>>
    /\ dx_set = FALSE
    /\ topxCall = <<>>
    /\ topxRet = <<>>

\* scan_edge.set_dx()
SetDx ==
    /\ ~dx_set
    /\ topxCall = <<>>
    /\ scan_edge' = set_dx(scan_edge)
    /\ dx_set' = TRUE
    /\ UNCHANGED <<topxCall, topxRet>>

\* scan_edge.top_x(current_y)
CallTopX(current_y) ==
    /\ topxCall = <<>>
    /\ topxCall' = <<current_y>>
    /\ topxRet' = top_x(scan_edge, current_y)
    /\ UNCHANGED <<scan_edge, dx_set>>

-----------------------------------------------------------------------------
(* lib.rs: OutRec::is_hole, OutRec::is_open *)

\* a & b on unsigned integers
RECURSIVE BitAnd(_, _)
BitAnd(a, b) ==
    IF a = 0 \/ b = 0 THEN 0
    ELSE (IF a % 2 = 1 /\ b % 2 = 1 THEN 1 ELSE 0) + 2 * BitAnd(a \div 2, b \div 2)

\* consts.rs:13-14
IS_HOLE == 1
IS_OPEN == 2

\* the values of a u8
U8 == 0..255

\* lib.rs:287-289: `&` binds tighter than `==`
OutRec_is_hole(rec_is_hole_open) == BitAnd(rec_is_hole_open, IS_HOLE) = 0

\* lib.rs:291-293
OutRec_is_open(rec_is_hole_open) == BitAnd(rec_is_hole_open, IS_OPEN) = 0

OutRecInit ==
    /\ is_hole_open \in U8
    /\ outRecCall = "none"
    /\ outRecRet = <<>>

OutRecIdle ==
    /\ is_hole_open = 0
    /\ outRecCall = "none"
    /\ outRecRet = <<>>

CallOutRecIsHole ==
    /\ outRecCall = "none"
    /\ outRecCall' = "is_hole"
    /\ outRecRet' = <<OutRec_is_hole(is_hole_open)>>
    /\ UNCHANGED is_hole_open

CallOutRecIsOpen ==
    /\ outRecCall = "none"
    /\ outRecCall' = "is_open"
    /\ outRecRet' = <<OutRec_is_open(is_hole_open)>>
    /\ UNCHANGED is_hole_open

-----------------------------------------------------------------------------
(* node.rs: PolyNode::get_next_sibling_up *)

\* The outcomes of a call: it returns an Option<PolyNodeIndex>, it panics,
\* or it blocks for ever on the tree's mutex.
Returns(value) == [kind |-> "return", value |-> value]
Panics == [kind |-> "panic"]
Deadlocks == [kind |-> "deadlock"]

\* self.tree.lock() by a thread that holds the lock (std::sync::Mutex is
\* not reentrant): the call blocks for ever or panics
LockHeldByCaller == {Deadlocks, Panics}

\* lines 41-54: the outcomes of node.get_next_sibling_up(); locked: the
\* calling thread holds the tree's mutex (the tree_lock of line 45 lives to
\* the end of the match arm, across the call of line 48)
RECURSIVE get_next_sibling_up(_, _, _)
get_next_sibling_up(pool, node, locked) ==
    IF node.parent = None
    THEN {Returns(None)}
    ELSE IF locked
    THEN LockHeldByCaller
    ELSE IF Len(NodeAt(pool, node.parent[1]).childs) = 0 /\ overflow_checks
    THEN \* line 47: attempt to subtract with overflow
         {Panics}
    ELSE IF node.index = WrappingSub1(Len(NodeAt(pool, node.parent[1]).childs))
    THEN get_next_sibling_up(pool, NodeAt(pool, node.parent[1]), TRUE)
    ELSE IF node.index = USIZE_MAX /\ overflow_checks
    THEN \* line 50: attempt to add with overflow
         {Panics}
    ELSE IF node.index + 1 >= Len(NodeAt(pool, node.parent[1]).childs)
    THEN \* line 50: index out of bounds
         {Panics}
    ELSE {Returns(Some(NodeAt(pool, node.parent[1]).childs[node.index + 2]))}

\* a pool with one more node, a child of all_nodes[p], linked both ways:
\* what add_child is documented to do ('adding the indices and saving the
\* index of the node'), or a caller does through the pub fields
LinkChild(pool, p, open) ==
    Append([pool EXCEPT ![p + 1].childs = Append(@, Len(pool))],
           [NewNode(open) EXCEPT !.parent = Some(p),
                                 !.index = Len(pool[p + 1].childs),
                                 !.glob_index = Len(pool)])

\* a pool with one more node, made by add_child in a build where the
\* subtraction of line 32 wraps
AddChildWrapped(pool, p, open) ==
    AddChildLocked(pool, NodeAt(pool, p), NewNode(open),
                   WrappingSub1(Len(NodeAt(pool, p).childs)))

\* the pools of exactly n nodes, each made by one of the two ways throughout
RECURSIVE LinkedPools(_)
LinkedPools(n) ==
    IF n = 1 THEN {<<NewNode(FALSE)>>}
    ELSE {LinkChild(pool, p, FALSE) : pool \in LinkedPools(n - 1), p \in 0..(n - 2)}

RECURSIVE AddChildPools(_)
AddChildPools(n) ==
    IF n = 1 THEN {<<NewNode(FALSE)>>}
    ELSE {AddChildWrapped(pool, p, FALSE) : pool \in AddChildPools(n - 1), p \in 0..(n - 2)}

SiblingInit ==
    /\ \E n \in 1..MaxNodes : all_nodes \in LinkedPools(n) \cup AddChildPools(n)
    /\ panicked = FALSE
    /\ lastCall = [op |-> "none"]
    /\ sibCall = <<>>
    /\ sibRet = <<>>

SiblingIdle ==
    /\ sibCall = <<>>
    /\ sibRet = <<>>

\* all_nodes[n].get_next_sibling_up(), called by a caller that does not
\* hold the tree's mutex
CallGetNextSiblingUp(n) ==
    /\ sibCall = <<>>
    /\ sibCall' = <<n>>
    /\ \E outcome \in get_next_sibling_up(all_nodes, NodeAt(all_nodes, n), FALSE) :
          sibRet' = <<outcome>>

-----------------------------------------------------------------------------
(* macros.rs: int128mul! on two i64 variables *)

\* the i64 operands of the model: 0, 1, 3, 2^31, 2^32 - 1, 2^32,
\* 7 * 2^32 + 3, 2^62 - 1, i64::MAX and their negatives, and i64::MIN
MulMagnitudes ==
    { BytesOf(0, 8), BytesOf(1, 8), BytesOf(3, 8),
      <<0, 0, 0, 128, 0, 0, 0, 0>>, <<255, 255, 255, 255, 0, 0, 0, 0>>,
      <<0, 0, 0, 0, 1, 0, 0, 0>>, <<3, 0, 0, 0, 7, 0, 0, 0>>,
      <<255, 255, 255, 255, 255, 255, 255, 63>>,
      <<255, 255, 255, 255, 255, 255, 255, 127>> }

MulOperands ==
    MulMagnitudes \cup {INeg(m).v : m \in MulMagnitudes}
                  \cup {<<0, 0, 0, 0, 0, 0, 0, 128>>}

\* lines 8-38: what the macro yields
Int128MulYields(product) ==
    Returned(product.o, [hi |-> product.hi, lo |-> product.lo])

MulInit ==
    /\ mul_lhs \in MulOperands
    /\ mul_rhs \in MulOperands
    /\ mulCall = <<>>
    /\ mulRet = <<>>

MulIdle ==
    /\ mul_lhs = BytesOf(0, 8)
    /\ mul_rhs = BytesOf(0, 8)
    /\ mulCall = <<>>
    /\ mulRet = <<>>

\* int128mul!(mul_lhs, mul_rhs): lines 11 and 15 assign to the operands
CallInt128Mul ==
    /\ mulCall = <<>>
    /\ mulCall' = <<[lhs |-> mul_lhs, rhs |-> mul_rhs]>>
    /\ mulRet' = Int128MulYields(Int128Mul(mul_lhs, mul_rhs))
    /\ mul_lhs' = NegateIfNegative(mul_lhs).v
    /\ mul_rhs' = NegateIfNegative(mul_rhs).v

-----------------------------------------------------------------------------
(* The specifications: one per part, the other parts at rest *)

InitContrib == BuildIdle /\ ContribInit /\ TreeIdle /\ GeomIdle /\ ExecIdle /\ SlopesIdle /\ EdgeIdle /\ OutRecIdle /\ SiblingIdle /\ MulIdle

ContribNext == CallIsContributing /\ UNCHANGED <<buildVars, mulVars, siblingVars, outRecVars, edgeVars, slopeVars, treeVars, geomVars, execVars>>

SpecContrib == InitContrib /\ [][ContribNext]_vars

InitTree == BuildChecks /\ TreeInit /\ ContribIdle /\ GeomIdle /\ ExecIdle /\ SlopesIdle /\ EdgeIdle /\ OutRecIdle /\ SiblingIdle /\ MulIdle

TreeNext ==
    \/ \E p \in 0..(Len(all_nodes) - 1), open \in BOOLEAN :
          AddChild(p, open) /\ UNCHANGED <<buildVars, mulVars, siblingVars, outRecVars, edgeVars, slopeVars, contribVars, geomVars, execVars>>
    \/ \E n \in 0..(Len(all_nodes) - 1) :
          CallIsHole(n) /\ UNCHANGED <<buildVars, mulVars, siblingVars, outRecVars, edgeVars, slopeVars, contribVars, geomVars, execVars>>

SpecTree == InitTree /\ [][TreeNext]_vars

InitArea == BuildIdle /\ AreaInit /\ ContribIdle /\ TreeIdle /\ ExecIdle /\ SlopesIdle /\ EdgeIdle /\ OutRecIdle /\ SiblingIdle /\ MulIdle

AreaNext == CallArea /\ UNCHANGED <<buildVars, mulVars, siblingVars, outRecVars, edgeVars, slopeVars, contribVars, treeVars, execVars>>

SpecArea == InitArea /\ [][AreaNext]_vars

InitPip == BuildIdle /\ PipInit /\ ContribIdle /\ TreeIdle /\ ExecIdle /\ SlopesIdle /\ EdgeIdle /\ OutRecIdle /\ SiblingIdle /\ MulIdle

PipNext == CallIsPointInPath /\ UNCHANGED <<buildVars, mulVars, siblingVars, outRecVars, edgeVars, slopeVars, contribVars, treeVars, execVars>>

SpecPip == InitPip /\ [][PipNext]_vars

InitRing == BuildIdle /\ RingInit /\ ContribIdle /\ TreeIdle /\ ExecIdle /\ SlopesIdle /\ EdgeIdle /\ OutRecIdle /\ SiblingIdle /\ MulIdle

RingNext == CallIsPointInOutPt /\ UNCHANGED <<buildVars, mulVars, siblingVars, outRecVars, edgeVars, slopeVars, contribVars, treeVars, execVars>>

SpecRing == InitRing /\ [][RingNext]_vars

InitExec == BuildIdle /\ ExecInit /\ ContribIdle /\ TreeIdle /\ GeomIdle /\ SlopesIdle /\ EdgeIdle /\ OutRecIdle /\ SiblingIdle /\ MulIdle

ExecNext ==
    \/ Build /\ UNCHANGED <<buildVars, mulVars, siblingVars, outRecVars, edgeVars, slopeVars, contribVars, treeVars, geomVars>>
    \/ \E ct \in ClipType, ft \in PolyFillType :
          ExecutePaths(ct, ft) /\ UNCHANGED <<buildVars, mulVars, siblingVars, outRecVars, edgeVars, slopeVars, contribVars, treeVars, geomVars>>
    \/ \E ct \in ClipType, ft \in PolyFillType :
          ExecutePolyTree(ct, ft) /\ UNCHANGED <<buildVars, mulVars, siblingVars, outRecVars, edgeVars, slopeVars, contribVars, treeVars, geomVars>>

SpecExec == InitExec /\ [][ExecNext]_vars

InitSlopes ==
    BuildAny /\ SlopesInit /\ ContribIdle /\ TreeIdle /\ GeomIdle /\ ExecIdle /\ EdgeIdle /\ OutRecIdle /\ SiblingIdle /\ MulIdle

SlopesNext ==
    \/ CallSlopesEqualEdge2 /\ UNCHANGED <<buildVars, mulVars, siblingVars, outRecVars, edgeVars, contribVars, treeVars, geomVars, execVars>>
    \/ CallSlopesEqualPoint3 /\ UNCHANGED <<buildVars, mulVars, siblingVars, outRecVars, edgeVars, contribVars, treeVars, geomVars, execVars>>
    \/ CallSlopesEqualPoint4 /\ UNCHANGED <<buildVars, mulVars, siblingVars, outRecVars, edgeVars, contribVars, treeVars, geomVars, execVars>>

SpecSlopes == InitSlopes /\ [][SlopesNext]_vars

InitEdge ==
    BuildChecks /\ EdgeInit /\ ContribIdle /\ TreeIdle /\ GeomIdle /\ ExecIdle /\ SlopesIdle /\ OutRecIdle /\ SiblingIdle /\ MulIdle

EdgeNext ==
    \/ SetDx /\ UNCHANGED <<buildVars, mulVars, siblingVars, outRecVars, contribVars, treeVars, geomVars, execVars, slopeVars>>
    \/ \E current_y \in 0..MaxEdgeCoord :
          CallTopX(current_y) /\ UNCHANGED <<buildVars, mulVars, siblingVars, outRecVars, contribVars, treeVars, geomVars, execVars, slopeVars>>

SpecEdge == InitEdge /\ [][EdgeNext]_vars

InitOutRec ==
    BuildIdle /\ OutRecInit /\ ContribIdle /\ TreeIdle /\ GeomIdle /\ ExecIdle /\ SlopesIdle /\ EdgeIdle /\ SiblingIdle /\ MulIdle

OutRecNext ==
    \/ CallOutRecIsHole /\ UNCHANGED <<buildVars, mulVars, siblingVars, contribVars, treeVars, geomVars, execVars, slopeVars, edgeVars>>
    \/ CallOutRecIsOpen /\ UNCHANGED <<buildVars, mulVars, siblingVars, contribVars, treeVars, geomVars, execVars, slopeVars, edgeVars>>

SpecOutRec == InitOutRec /\ [][OutRecNext]_vars

InitSibling ==
    BuildChecks /\ SiblingInit /\ ContribIdle /\ GeomIdle /\ ExecIdle /\ SlopesIdle /\ EdgeIdle /\ OutRecIdle /\ MulIdle

SiblingNext ==
    \E n \in 0..(Len(all_nodes) - 1) :
        CallGetNextSiblingUp(n) /\ UNCHANGED <<buildVars, mulVars, contribVars, treeVars, geomVars, execVars, slopeVars, edgeVars, outRecVars>>

SpecSibling == InitSibling /\ [][SiblingNext]_vars

InitMul ==
    BuildChecks /\ MulInit /\ ContribIdle /\ TreeIdle /\ GeomIdle /\ ExecIdle /\ SlopesIdle /\ EdgeIdle /\ OutRecIdle /\ SiblingIdle

MulNext ==
    CallInt128Mul /\ UNCHANGED <<buildVars, contribVars, treeVars, geomVars, execVars, slopeVars, edgeVars, outRecVars, siblingVars>>

SpecMul == InitMul /\ [][MulNext]_vars

-----------------------------------------------------------------------------
(* ---- claims about is_contributing ---- *)

\* the fill rule of the edge's own role, and of the other role
RoleFill == IF edge.poly_typ = "Subject" THEN subj_fill_type ELSE clip_fill_type
OtherFill == IF edge.poly_typ = "Subject" THEN clip_fill_type ELSE subj_fill_type

\* the fill-rule test as the specification words it
SpecFillTest ==
    CASE RoleFill = "EvenOdd"  -> edge.wind_delta # 0 \/ edge.wind_cnt = 1
      [] RoleFill = "NonZero"  -> Abs(edge.wind_cnt) = 1
      [] RoleFill = "Positive" -> edge.wind_cnt = 1
      [] RoleFill = "Negative" -> edge.wind_cnt = -1

\* C3: is_contributing applies the fill rule of the edge's own role and the
\* edge passes the test exactly when EvenOdd: wind_delta != 0 or wind_cnt == 1,
\* NonZero: |wind_cnt| == 1, Positive: wind_cnt == 1, Negative: wind_cnt == -1;
\* an edge failing the test is returned as not contributing (false) whatever
\* the clip type.
C3_FillRuleTest ==
    /\ PassesFillRule(edge, OwnFillType(edge, subj_fill_type, clip_fill_type)) <=> SpecFillTest
    /\ (contribPc = "done" /\ ~SpecFillTest) => contributing = {FALSE}

\* a clip edge, judged by the clip fill rule where the subject rule would
\* have passed it, has failed the test and was returned as not contributing
C3_Witness ==
    /\ contribPc = "done"
    /\ edge.poly_typ = "Clip" /\ edge.wind_cnt = -1 /\ edge.wind_delta = 0
    /\ clip_fill_type = "Positive" /\ subj_fill_type = "Negative"
    /\ clip_type = "Union"
    /\ contributing = {FALSE}

\* whether the other role covers the edge: its winding count under its rule
OtherRoleFilled ==
    CASE OtherFill \in {"EvenOdd", "NonZero"} -> edge.wind_cnt2 # 0
      [] OtherFill = "Positive" -> edge.wind_cnt2 > 0
      [] OtherFill = "Negative" -> edge.wind_cnt2 < 0

SubjContributes == IF edge.poly_typ = "Subject" THEN SpecFillTest ELSE OtherRoleFilled
ClipContributes == IF edge.poly_typ = "Clip" THEN SpecFillTest ELSE OtherRoleFilled

TruthTable(ct, s, c) ==
    CASE ct = "Intersection" -> s /\ c
      [] ct = "Union"        -> s \/ c
      [] ct = "Difference"   -> s /\ ~c
      [] ct = "Xor"          -> s # c

\* C4: for an edge that passes its own fill-rule test, is_contributing
\* returns the clip type's truth table (AND, OR, AND-NOT, XOR) of "subject
\* contributes" and "clip contributes": a defined boolean for every
\* combination.
C4_TruthTable ==
    (contribPc = "done" /\ SpecFillTest) =>
        contributing = {TruthTable(clip_type, SubjContributes, ClipContributes)}

\* C9 as stated: an edge whose own winding count is outside {-1, 0, +1} is
\* rejected (is_contributing returns false) for every fill rule, every
\* winding delta and every clip type.
C9_AsStated ==
    (contribPc = "done" /\ edge.wind_cnt \notin {-1, 0, 1}) => contributing = {FALSE}

\* C9 amended: an edge whose own winding count is outside {-1, 0, +1} is
\* rejected (is_contributing returns false) for every clip type under
\* NonZero, Positive and Negative, and under EvenOdd when its winding delta
\* is 0.
C9_OutsideRejected ==
    (/\ contribPc = "done"
     /\ edge.wind_cnt \notin {-1, 0, 1}
     /\ (RoleFill # "EvenOdd" \/ edge.wind_delta = 0)) => contributing = {FALSE}

C9_Witness ==
    /\ contribPc = "done"
    /\ edge.wind_cnt = -2 /\ edge.wind_delta = 255
    /\ edge.poly_typ = "Subject" /\ subj_fill_type = "NonZero"
    /\ clip_type = "Xor"
    /\ contributing = {FALSE}

(* ---- claims about PolyNode ---- *)

\* the number of parent links from a node up to the root
RECURSIVE Depth(_, _)
Depth(pool, node) ==
    IF node.parent = None THEN 0 ELSE 1 + Depth(pool, NodeAt(pool, node.parent[1]))

\* C5: in every tree built by add_child under the root, is_hole is decided
\* by depth parity alone: a child of the root is no hole, a grandchild is
\* one, and every node with a parent differs from its parent; the value a
\* call of is_hole returned is that parity.
C5_HoleByDepthParity ==
    /\ \A i \in 1..Len(all_nodes) :
          LET node == all_nodes[i]
              d == Depth(all_nodes, node)
          IN  node.parent # None =>
                /\ is_hole(all_nodes, node)
                     # is_hole(all_nodes, NodeAt(all_nodes, node.parent[1]))
                /\ d = 1 => ~is_hole(all_nodes, node)
                /\ d = 2 => is_hole(all_nodes, node)
                /\ is_hole(all_nodes, node) <=> (d % 2 = 0)
    /\ lastCall.op = "is_hole" =>
          (lastCall.ret <=> (Depth(all_nodes, NodeAt(all_nodes, lastCall.node)) % 2 = 0))

\* is_hole was called on a grandchild of the root and returned true, in a
\* tree that also holds a great-grandchild
C5_Witness ==
    /\ lastCall.op = "is_hole"
    /\ Depth(all_nodes, NodeAt(all_nodes, lastCall.node)) = 2
    /\ lastCall.ret = TRUE
    /\ \E i \in 1..Len(all_nodes) : Depth(all_nodes, all_nodes[i]) = 3

\* C10: after parent.add_child(child), also on a parent without children,
\* the call has completed without arithmetic underflow, the pool has grown
\* by exactly one node, child.parent is the parent's glob_index,
\* child.glob_index is the child's position in the pool, the child's
\* glob_index appears exactly once in parent.childs, child.index is its
\* position there, and the nodes stored before are unchanged.
C10_AddChildPost ==
    lastCall.op = "add_child" =>
        LET before == lastCall.before
            parent == NodeAt(all_nodes, lastCall.parent)
            child == all_nodes[Len(all_nodes)]
        IN  /\ ~panicked
            /\ Len(all_nodes) = Len(before) + 1
            /\ child.parent = Some(parent.glob_index)
            /\ child.glob_index = Len(all_nodes) - 1
            /\ \A k \in 1..Len(before) :
                  k # lastCall.parent + 1 => all_nodes[k] = before[k]
            /\ Cardinality({k \in 1..Len(parent.childs) :
                              parent.childs[k] = child.glob_index}) = 1
            /\ child.index \in 0..(Len(parent.childs) - 1)
            /\ parent.childs[child.index + 1] = child.glob_index

(* ---- claims about Path::area and is_point_in_path ---- *)

\* the vertex after position i of a closed path
NextOf(poly, i) == poly[(i % Len(poly)) + 1]

\* the cyclic shoelace sum over consecutive vertices, x_i*y_(i+1) - x_(i+1)*y_i
RECURSIVE ShoelaceFrom(_, _)
ShoelaceFrom(poly, i) ==
    IF i > Len(poly) THEN 0
    ELSE poly[i].x * NextOf(poly, i).y - NextOf(poly, i).x * poly[i].y
         + ShoelaceFrom(poly, i + 1)

\* (b - a) x (c - a): positive when a, b, c turn left
Cross(a, b, c) == (b.x - a.x) * (c.y - a.y) - (b.y - a.y) * (c.x - a.x)

\* every corner of the closed path turns left: a counter-clockwise path
AllLeftTurns(poly) ==
    \A i \in 1..Len(poly) :
        Cross(poly[i], NextOf(poly, i), NextOf(poly, (i % Len(poly)) + 1)) > 0

\* C1: for a path of at least 3 points area() is the signed shoelace area:
\* 2 * area is the cyclic sum of x_i*y_(i+1) - x_(i+1)*y_i, positive for a
\* counter-clockwise path; for a path of fewer than 3 points area() is 0.
\* (geomRet holds area() in units of 0.5, that is 2 * area.)
C1_ShoelaceArea ==
    geomCall = "area" =>
        /\ Len(path) >= 3 => geomRet = <<ShoelaceFrom(path, 1)>>
        /\ (Len(path) >= 3 /\ AllLeftTurns(path)) => geomRet[1] > 0
        /\ Len(path) < 3 => geomRet = <<0>>

\* area() returned the area 2 (4 halves) of a counter-clockwise triangle
C1_Witness ==
    /\ geomCall = "area"
    /\ Len(path) = 3
    /\ AllLeftTurns(path)
    /\ geomRet = <<4>>

\* p lies on the closed segment from a to b
OnSegment(p, a, b) ==
    /\ Cross(p, a, b) = 0
    /\ (a.x <= p.x /\ p.x <= b.x) \/ (b.x <= p.x /\ p.x <= a.x)
    /\ (a.y <= p.y /\ p.y <= b.y) \/ (b.y <= p.y /\ p.y <= a.y)

OnBoundary(p, poly) ==
    \E i \in 1..Len(poly) : OnSegment(p, poly[i], NextOf(poly, i))

\* the ray from p towards +x crosses the segment from a to b, an endpoint on
\* the ray counting for the segment that leaves it upwards
RayCrosses(p, a, b) ==
    LET lo == IF a.y <= b.y THEN a ELSE b
        hi == IF a.y <= b.y THEN b ELSE a
    IN  /\ lo.y <= p.y /\ p.y < hi.y
        /\ (lo.x - p.x) * (hi.y - lo.y) + (p.y - lo.y) * (hi.x - lo.x) > 0

\* even-odd: the ray crosses the boundary an odd number of times
InsideEvenOdd(p, poly) ==
    Cardinality({i \in 1..Len(poly) : RayCrosses(p, poly[i], NextOf(poly, i))}) % 2 = 1

\* C2: for a path of at least 3 vertices is_point_in_path returns -1 exactly
\* when pt is a vertex or lies on a boundary segment of the closed path, and
\* otherwise +1 exactly when pt is inside by the even-odd ray-crossing rule
\* and 0 when it is outside; for a path of fewer than 3 vertices it
\* returns 0.
C2_PointInPath ==
    geomCall = "is_point_in_path" =>
        IF Len(path) < 3 THEN geomRet = <<0>>
        ELSE IF OnBoundary(pt, path) THEN geomRet = <<-1>>
        ELSE IF InsideEvenOdd(pt, path) THEN geomRet = <<1>>
        ELSE geomRet = <<0>>

\* is_point_in_path found pt strictly inside a triangle
C2_Witness ==
    /\ geomCall = "is_point_in_path"
    /\ Len(path) = 3
    /\ ~OnBoundary(pt, path)
    /\ InsideEvenOdd(pt, path)
    /\ geomRet = <<1>>

\* C8: for every point pt and every circular OutPt ring of n >= 1 points,
\* is_point_in_out_pt(pt, ring) returns what is_point_in_path(pt, P) returns,
\* P being the path of all n ring points in next-order from the given OutPt.
C8_RingAsPath ==
    geomCall = "is_point_in_out_pt" => geomRet = is_point_in_path(pt, path)

(* ---- claims about Clipper::execute_* ---- *)

RECURSIVE SumAreaHalves(_, _)
SumAreaHalves(paths, i) ==
    IF i > Len(paths) THEN 0 ELSE Abs(area_halves(paths[i])) + SumAreaHalves(paths, i + 1)

\* C6: with subject = square (0,0),(10,0),(10,10),(0,10) and clip = square
\* (5,5),(15,5),(15,15),(5,15) under EvenOdd, execute returns Ok with: for
\* Intersection the single square (5,5),(10,5),(10,10),(5,10) of area 25,
\* for Union one hexagon of area 175, for Xor two rectangles of total area
\* 150.  (area_halves is 2 * area.)
C6_SquaresScenario ==
    (/\ execPc = "executed"
     /\ subject = <<SubjectSquare>> /\ clip = <<ClipSquare>>
     /\ execCall.fill_type = "EvenOdd") =>
        /\ execCall.clip_type \in {"Intersection", "Union", "Xor"} => execRet = <<"Ok">>
        /\ execCall.clip_type = "Intersection" =>
              /\ solution = << << [x |-> 5, y |-> 5], [x |-> 10, y |-> 5],
                                  [x |-> 10, y |-> 10], [x |-> 5, y |-> 10] >> >>
              /\ SumAreaHalves(solution, 1) = 2 * 25
        /\ execCall.clip_type = "Union" =>
              /\ Len(solution) = 1 /\ Len(solution[1]) = 6
              /\ SumAreaHalves(solution, 1) = 2 * 175
        /\ execCall.clip_type = "Xor" =>
              /\ Len(solution) = 2
              /\ SumAreaHalves(solution, 1) = 2 * 150

-----------------------------------------------------------------------------
(* ---- claims about the slope tests ---- *)

\* the vector p - q, exact
DirVec(p, q) == [x |-> ExactDiff(p.x, q.x), y |-> ExactDiff(p.y, q.y)]

\* the two direction vectors the called function compares
SlopeVectors ==
    CASE slopeCall = "slopes_equal_edge2" ->
            <<DirVec(pts[2], pts[1]), DirVec(pts[4], pts[3])>>
      [] slopeCall = "slopes_equal_point3" ->
            <<DirVec(pts[1], pts[2]), DirVec(pts[2], pts[3])>>
      [] slopeCall = "slopes_equal_point4" ->
            <<DirVec(pts[1], pts[2]), DirVec(pts[3], pts[4])>>

\* dy1 * dx2 = dx1 * dy2 in unbounded arithmetic
CrossIsZero(u, v) == ExactProduct(u.y, v.x) = ExactProduct(u.x, v.y)

\* -HI_RANGE <= c <= HI_RANGE
InRange(c) == ~LessSigned(HI_RANGE, c) /\ ~LessSigned(c, INeg(HI_RANGE).v)

\* C7: on points in the coordinate range, each of slopes_equal_edge2,
\* slopes_equal_point3 and slopes_equal_point4 returns, and returns true
\* exactly when the cross product of the two direction vectors is zero in
\* unbounded arithmetic.
C7_SlopesExact ==
    (slopeCall # "none" /\ \A i \in 1..4 : InRange(pts[i].x) /\ InRange(pts[i].y))
        => slopeRet = <<CrossIsZero(SlopeVectors[1], SlopeVectors[2])>>

-----------------------------------------------------------------------------
(* ---- claims about Edge::top_x ---- *)

\* y lies between the ends of the edge, the ends included
BetweenEnds(e, y) ==
    \/ e.top.y <= y /\ y <= e.bot.y
    \/ e.bot.y <= y /\ y <= e.top.y

\* the x of the edge's segment at y, rounded to the nearest integer
SegmentXAt(e, y) ==
    e.bot.x + RoundHalfAway((e.top.x - e.bot.x) * (y - e.bot.y), e.top.y - e.bot.y)

\* C11: on a non-horizontal edge whose dx was set by set_dx, for current_y
\* between top.y and bot.y, top_x(current_y) returns the x of the segment at
\* that y rounded to the nearest integer (top.x at top.y, bot.x at bot.y).
C11_TopXOnSegment ==
    (/\ dx_set
     /\ topxCall # <<>>
     /\ scan_edge.top.y # scan_edge.bot.y
     /\ BetweenEnds(scan_edge, topxCall[1]))
        => topxRet = <<I64(SegmentXAt(scan_edge, topxCall[1]))>>

-----------------------------------------------------------------------------
(* ---- claims about ClipperBuilder::build ---- *)

\* the flag is set in the options byte of the built Clipper
FlagReadBack(flag) == BitAnd(options, flag) # 0

\* C12: in the Clipper that build() made, each of execute_locked,
\* strict_simple and preserve_colinear is read back from its own bit of
\* options (set exactly when the option was enabled), and two
\* ClipperInitOptions that differ in a flag give different options bytes.
C12_OptionBits ==
    execPc # "builder" =>
        /\ FlagReadBack(EXECUTE_LOCKED) = init_options.execute_locked
        /\ FlagReadBack(STRICT_SIMPLE) = init_options.strict_simple
        /\ FlagReadBack(PRESERVE_COLINEAR) = init_options.preserve_colinear
        /\ \A o \in ClipperInitOptions :
              o # init_options => BuildOptions(o) # options

-----------------------------------------------------------------------------
(* ---- claims about OutRec ---- *)

\* bit number k (from 0) of the unsigned integer v is set
BitSet(v, k) == (v \div (2 ^ k)) % 2 = 1

\* C13: for every is_hole_open, is_hole() returns true exactly when the
\* IS_HOLE bit (bit 0) is set and is_open() returns true exactly when the
\* IS_OPEN bit (bit 1) is set.
C13_FlagAccessors ==
    /\ outRecCall = "is_hole" => outRecRet = <<BitSet(is_hole_open, 0)>>
    /\ outRecCall = "is_open" => outRecRet = <<BitSet(is_hole_open, 1)>>

-----------------------------------------------------------------------------
(* ---- claims about PolyNode::get_next_sibling_up ---- *)

\* every child is listed by its parent at the child's index
ChildsLinked(pool) ==
    \A i \in 1..Len(pool) :
        pool[i].parent # None =>
            LET childs == NodeAt(pool, pool[i].parent[1]).childs
            IN  /\ pool[i].index \in 0..(Len(childs) - 1)
                /\ childs[pool[i].index + 1] = pool[i].glob_index

\* the next sibling, or the next sibling of the nearest ancestor that has one
RECURSIVE NextSiblingUp(_, _)
NextSiblingUp(pool, node) ==
    IF node.parent = None THEN None
    ELSE LET parent_node == NodeAt(pool, node.parent[1])
         IN  IF node.index + 1 < Len(parent_node.childs)
             THEN Some(parent_node.childs[node.index + 2])
             ELSE NextSiblingUp(pool, parent_node)

\* C14: in a tree whose parents list their children, get_next_sibling_up
\* always returns: the sibling at index + 1 for a node that is not a last
\* child, what the call on the parent returns for a last child, None for a
\* node without parent; it never blocks on the tree's mutex.
C14_NextSiblingUp ==
    (sibCall # <<>> /\ ChildsLinked(all_nodes))
        => sibRet = <<Returns(NextSiblingUp(all_nodes, NodeAt(all_nodes, sibCall[1])))>>

-----------------------------------------------------------------------------
(* ---- claims about int128mul! ---- *)

\* the 128-bit two's-complement representation of lhs * rhs, as (hi, lo)
Product128(lhs, rhs) ==
    [hi |-> SubSeq(ExactProduct(lhs, rhs), 9, 16),
     lo |-> SubSeq(ExactProduct(lhs, rhs), 1, 8)]

\* C15: for every pair of i64 operands int128mul!(lhs, rhs) yields the pair
\* (hi, lo) with hi * 2^64 + lo = lhs * rhs in two's complement.
C15_ExactProduct ==
    mulCall # <<>> => mulRet = <<Product128(mulCall[1].lhs, mulCall[1].rhs)>>

=============================================================================
